---- MODULE Spec2Model ----
(***************************************************************************)
(* The request execution core of setu.js: one logical call, its retry      *)
(* loop and the life cycle of each attempt, on the server backend          *)
(* (src/src/nodeAdapter.ts) and on the browser backend                     *)
(* (src/src/browserAdapter.ts), against the benchmark's test server        *)
(* (src/benchmark/test-server.js).                                         *)
(*                                                                         *)
(* Both backends run on a single-threaded event loop: every handler runs   *)
(* to completion, and the promise reactions it schedules (the retry loop's *)
(* continuation) run before the next event is dispatched.  An action is    *)
(* therefore one event handler together with the continuation it wakes.    *)
(***************************************************************************)
EXTENDS Integers, Sequences, FiniteSets, TLC

\* ------------------------------------------------------------ bounds

\* The largest retry count a call is given.
MaxRetry == 2
\* The largest retry count of a call whose body is a multipart form (its
\* failed uploads leave requests open beside the later attempts).
MaxFormRetry == 1
\* The largest number of leading invocations the retry endpoint fails.
MaxFail == 2
\* The largest number of entries of a headers object.
MaxHeaders == 2
\* The largest number of entries of a params object.
MaxParams == 2
\* The longest response body, in bytes.
MaxBody == 3
\* The callers of the client that wait for the adapter.
MaxCalls == 3

\* ------------------------------------------------------------ inputs

Backends == {"node", "browser"}
\* The statuses of the fixed endpoints: the first status past the default
\* window, the test server's 404 fallback and its /test/error (500).
Statuses == {300, 404, 500}
\* config.timeout: absent/0, or the benchmark's 1000 ms.
Timeouts == {0, 1000}
\* defaults.timeout: 0 as initialised, or set by the application.
DefaultTimeouts == {0, 2000}
\* config.responseType values that change the attempt's control flow.
ResponseTypes == {"json", "stream"}
\* config.body classes that change the attempt's control flow: absent, a
\* multipart form, or an object JSON.stringify throws on (a cyclic one).
Bodies == {"none", "form", "cyclic"}
\* The url argument: one the URL parser accepts, or one it rejects.
Urls == {"valid", "invalid"}
\* config.body classes that change what is written: beside those above, a
\* plain object, an array, a string, a Buffer and another primitive (a
\* number, a boolean). A call with a body uses a method that carries one
\* (POST).
BodyKinds == Bodies \cup {"object", "array", "string", "buffer", "primitive"}
\* The keys of a headers object, as the caller spells them, and the values.
HeaderKeys == {"Accept", "Content-Type", "content-type"}
HeaderValues == {"text/plain", "text/csv"}

\* The name of a header on the wire: header names are case-insensitive.
Lower(key) ==
  CASE key = "Accept" -> "accept"
    [] key = "Content-Type" -> "content-type"
    [] key = "Content-Length" -> "content-length"
    [] OTHER -> key

WireNames == {"accept", "content-type", "content-length"}

\* A headers object: its entries in insertion order, no key twice and no
\* header named under two spellings.
HeaderObjects ==
  { h \in UNION { [1..n -> [k : HeaderKeys, v : HeaderValues]] : n \in 0..MaxHeaders } :
      \A i, j \in 1..Len(h) : i # j => Lower(h[i].k) # Lower(h[j].k) }
\* config.validateStatus: absent, or a predicate given by the statuses it
\* accepts (it accepts a status the default rejects and rejects the statuses
\* the default accepts).
Predicates ==
  { [given |-> FALSE, accepts |-> {}],
    [given |-> TRUE, accepts |-> {404}] }
\* The endpoint called: /test/retry failing its first n invocations, or an
\* endpoint answering the fixed status n.
Endpoints ==
  [path : {"retry"}, n : 0..MaxFail] \cup [path : {"fixed"}, n : Statuses]

Attempts == 0..MaxRetry

\* A URL text is a sequence of tokens: the scheme and host "http://h", the
\* separators "/", "?", "&", "#", a path segment "p", the query pairs "a=0"
\* and "b=0", a fragment word "f".
\* The url argument as text: a path with or without leading slash or an
\* absolute URL, then no query, one pair or two, then no fragment, a
\* fragment, or a fragment that holds a question mark.
UrlTexts ==
  { path \o query \o hash :
      path \in {<<"p">>, <<"/", "p">>, <<"http://h", "/", "p">>},
      query \in {<<>>, <<"?", "a=0">>, <<"?", "a=0", "&", "b=0">>},
      hash \in {<<>>, <<"#", "f">>, <<"#", "f", "?", "b=0">>} }

\* The url of the calls whose URL text is of no interest.
PlainUrl == <<"http://h", "/", "p">>

\* defaults.baseURL: empty as initialised, or set with or without a
\* trailing slash.
BaseUrls == {<<>>, <<"http://h">>, <<"http://h", "/">>}

\* The key and the value of a query pair.
PairKey(tok) == IF tok = "a=0" THEN "a" ELSE "b"

PairValue(tok) == "0"

\* config.params: absent, or an object whose entries, in insertion order,
\* have a scalar, an array of two items, null or a nested object as value.
ParamKeys == {"a", "b"}

ParamValues == {"scalar", "array", "null", "object"}

NoParams == [given |-> FALSE, entries |-> <<>>]

\* What the body of a response turns out to be when it has all arrived:
\* nothing, a JSON text, a text that is not JSON, or white space only.
BodyTexts == {"json", "invalid", "blank"}

\* The Content-Disposition header of a response: absent, with a filename=
\* parameter, or with one whose value decodeURIComponent throws on.
Dispositions == {"none", "filename", "malformed"}

\* The server's reply to an attempt: its Content-Type, whether it declares
\* a Content-Length (a chunked reply declares none), the length of its body,
\* the texts that body may be, and its Content-Disposition.
PlainReply ==
  [type |-> "application/json", declared |-> TRUE, length |-> 1,
   texts |-> {"json", "invalid"}, disposition |-> "none"]

Replies ==
  [type : {"application/json", "text/plain"}, declared : BOOLEAN,
   length : 0..MaxBody, texts : {BodyTexts}, disposition : Dispositions]

\* The byte length of a string or buffer body, of the JSON text of a body,
\* and of a multipart body.
ByteLength == 2

JsonLength == 4

FormLength == 2

ParamObjects ==
  {NoParams} \cup
  { [given |-> TRUE, entries |-> e] :
      e \in { h \in UNION { [1..n -> [k : ParamKeys, v : ParamValues]] :
                               n \in 0..MaxParams } :
                \A i, j \in 1..Len(h) : i # j => h[i].k # h[j].k } }

\* ------------------------------------------------------------ values

\* error.code of a status-validation failure.
\* An option the config does not have (undefined).
Absent == -1

NullCode == "null"
\* error.code of an exception no buildError call produced: the property
\* does not exist.
UndefinedCode == "undefined"

\* response.filename when the property does not exist.
NoFilename == "undefined"

NoResp == [status |-> 0, data |-> "none", filename |-> NoFilename]

\* What has been handed to the transport: the URL, for each header name the
\* values sent under it, and the body.
\* A URL: the text up to the query, the query pairs, the fragment text.
NoUrl == [path |-> <<>>, query |-> <<>>, hash |-> <<>>]

NoSent ==
  [url |-> NoUrl, headers |-> [n \in WireNames |-> <<>>], body |-> "none"]

\* HttpResponse: {status, headers, data}, without a filename.
Response(status, data) ==
  [status |-> status, data |-> data, filename |-> NoFilename]

\* A message and the number interpolated into it (0: none).
Msg(text, n) == [text |-> text, n |-> n]

NoOut ==
  [kind |-> "none", response |-> NoResp, code |-> "", message |-> Msg("", 0),
   status |-> 0]

\* The value a promise is resolved with.
Resolved(resp) ==
  [kind |-> "response", response |-> resp, code |-> "", message |-> Msg("", 0),
   status |-> 0]

\* buildError(message, config, code, request, response?, status?):
\* error.response and error.status are set only when given (truthy).
buildError(message, code, response, status) ==
  [kind |-> "error", response |-> response, code |-> code,
   message |-> message, status |-> status]

\* An exception thrown by the runtime inside the promise executor (a
\* DOMException of xhr.open, a TypeError of JSON.stringify): it becomes
\* the rejection value as it is.
Thrown(name) ==
  [kind |-> "error", response |-> NoResp, code |-> UndefinedCode,
   message |-> Msg(name, 0), status |-> 0]

VARIABLES
  cfg,            \* the call's RequestConfig, the Defaults and the endpoint
  att,            \* per attempt: promise, transport, flags
  pc,             \* the call: "init", "inflight", "delay", "done"
  cur,            \* the retry loop's i (node), makeRequest's attempt (browser)
  lastError,      \* coreRequest's lastError
  result,         \* what the caller's promise settled with
  nAttempts,      \* makeRequest invocations of this call
  nDelays,        \* inter-attempt delays started
  signalAborted,  \* config.signal.aborted
  retryCounter,   \* the server's global.retryCounter
  first,          \* the record of the same call made on the other backend
  waits,          \* the durations of the inter-attempt delays started
  other,          \* the locals of a second call in flight at the same time
  loader          \* index.ts: adapterPromise, the loads started, the callers

vars ==
  <<cfg, att, pc, cur, lastError, result, nAttempts, nDelays, signalAborted,
    retryCounter, first, waits, other, loader>>

\* ------------------------------------------------------------ attempt state

\* promise: "none" (makeRequest not called), "pending", "resolved", "rejected"
\* req:     "none", "unsent" (an XMLHttpRequest constructed, not opened),
\*          "opened" (xhr.open() done, nothing sent), "open" (in flight),
\*          "destroyed" (req.destroy()), "aborted" (xhr.abort()),
\*          "failed" (the transport failed), "complete"
\* timeout: the timeout the transport request was given (0: none)
\* sent:    the headers and the body handed to the transport
\* res:     "none", "headers", "ended", "errored"
\* cause:   the first terminal trigger of the attempt
\* late:    resolve or reject was called on the promise after it had settled
\* downloaded, progress: the bytes of the response body received, and the
\*          loaded values reported to onDownloadProgress, in order
\* text:    the text of the response body received ("none": not yet)
\* uploaded, upload: the bytes of the request body written, and the
\*          reports made to onUploadProgress, in order
Blank ==
  [promise |-> "none", out |-> NoOut, req |-> "none", res |-> "none",
   status |-> 0, timeout |-> 0, sent |-> NoSent, listener |-> FALSE,
   downloaded |-> 0, progress |-> <<>>, uploaded |-> 0, upload |-> <<>>,
   text |-> "none",
   requestErrorHandled |-> FALSE,
   timeoutHandled |-> FALSE, responseErrorHandled |-> FALSE,
   formErrorHandled |-> FALSE, isHandled |-> FALSE, retrying |-> FALSE,
   cause |-> "none", late |-> FALSE]

\* A promise settles once: resolve and reject are no-ops on a settled promise.
\* Variant: a promise that takes the value of every resolve or reject call.
SettleOverwrite(a, kind, out, cause) ==
  [a EXCEPT !.promise = kind, !.out = out,
            !.cause = IF a.promise = "pending" THEN cause ELSE @,
            !.late = (a.promise # "pending") \/ @]

Settle(a, kind, out, cause) ==
  IF a.promise = "pending"
  THEN [a EXCEPT !.promise = kind, !.out = out, !.cause = cause]
  ELSE [a EXCEPT !.late = TRUE]

resolve(a, resp, cause) == Settle(a, "resolved", Resolved(resp), cause)

\* Variant: a reject whose value replaces the one the promise has.
rejectOverwrite(a, err, cause) == SettleOverwrite(a, "rejected", err, cause)

reject(a, err, cause) == Settle(a, "rejected", err, cause)

\* config.validateStatus || ((status) => status >= 200 && status < 300)
DefaultValidate(status) == status >= 200 /\ status < 300

\* Variant: the caller's predicate combined with the default window.
ValidateAlsoDefault(status) ==
  DefaultValidate(status)
  \/ (cfg.validateStatus.given /\ status \in cfg.validateStatus.accepts)

validateStatus(status) ==
  IF cfg.validateStatus.given
  THEN status \in cfg.validateStatus.accepts
  ELSE DefaultValidate(status)

\* ------------------------------------------------------------ request building

\* The place of the first token t of the text s (0: none), and the text
\* before it (s.split(t)[0]), after it, and from it on.
FirstAt(s, t) ==
  IF \E j \in 1..Len(s) : s[j] = t
  THEN CHOOSE j \in 1..Len(s) : s[j] = t /\ \A l \in 1..(j - 1) : s[l] # t
  ELSE 0

Upto(s, t) == IF FirstAt(s, t) = 0 THEN s ELSE SubSeq(s, 1, FirstAt(s, t) - 1)

After(s, t) ==
  IF FirstAt(s, t) = 0 THEN <<>> ELSE SubSeq(s, FirstAt(s, t) + 1, Len(s))

From(s, t) ==
  IF FirstAt(s, t) = 0 THEN <<>> ELSE SubSeq(s, FirstAt(s, t), Len(s))

\* url.startsWith('http://') || url.startsWith('https://')
startsWithHttp(u) == u # <<>> /\ u[1] = "http://h"

\* base + path: the base without a trailing slash, the path with a leading
\* slash (the same lines in both backends).
JoinBase(baseURL, u) ==
  LET base == IF baseURL # <<>> /\ baseURL[Len(baseURL)] = "/"
              THEN SubSeq(baseURL, 1, Len(baseURL) - 1)
              ELSE baseURL
      path == IF u # <<>> /\ u[1] = "/" THEN u ELSE <<"/">> \o u
  IN base \o path

\* new URLSearchParams(text): the pairs of the text, in order.
IsPair(tok) == tok \in {"a=0", "b=0"}

ParseQuery(text) ==
  LET pairs == SelectSeq(text, IsPair)
  IN [j \in 1..Len(pairs) |->
        [k |-> PairKey(pairs[j]), v |-> PairValue(pairs[j])]]

\* String(item) of the items of an array value, String(value) of a scalar,
\* JSON.stringify(value) of an array and of a nested object.
ArrayItems == <<"1", "2">>

ScalarString == "1"

ArrayJson == "[1,2]"

ObjectJson == "{}"

\* buildQuery(params): '' for null, one pair per item of an array, the
\* JSON text of an object, the string of a primitive.
RECURSIVE buildQuery(_)
buildQuery(entries) ==
  IF entries = <<>>
  THEN <<>>
  ELSE LET e == Head(entries)
           appended ==
             CASE e.v = "null" -> <<[k |-> e.k, v |-> ""]>>
               [] e.v = "array" ->
                    [j \in 1..Len(ArrayItems) |-> [k |-> e.k, v |-> ArrayItems[j]]]
               [] e.v = "object" -> <<[k |-> e.k, v |-> ObjectJson]>>
               [] OTHER -> <<[k |-> e.k, v |-> ScalarString]>>
       IN appended \o buildQuery(Tail(entries))

\* new URL(text): the fragment is what follows the first '#', the query
\* what follows the first '?' before it.
ParseUrl(u) ==
  LET beforeHash == Upto(u, "#")
  IN [path |-> Upto(beforeHash, "?"),
      query |-> ParseQuery(After(beforeHash, "?")),
      hash |-> From(u, "#")]

\* makeRequest rejects the URL: a relative one while no baseURL is set, or
\* one new URL() throws on.
NodeUrlRejected ==
  \/ ~startsWithHttp(cfg.href) /\ cfg.baseURL = <<>>
  \/ cfg.url = "invalid"

\* finalUrl: the URL parsed from the joined text, its search replaced by
\* buildQuery(config.params) when params are given.
NodeUrl ==
  LET urlToUse == IF startsWithHttp(cfg.href)
                  THEN cfg.href
                  ELSE JoinBase(cfg.baseURL, cfg.href)
      finalUrl == ParseUrl(urlToUse)
  IN IF cfg.params.given
     THEN [finalUrl EXCEPT !.query = buildQuery(cfg.params.entries)]
     ELSE finalUrl

\* URLSearchParams.set(key, value): the first pair of that key takes the
\* value and the others of that key are removed; a new key is added last.
SetParam(q, key, value) ==
  LET KeepOther(x) == x.k # key
      at == IF \E j \in 1..Len(q) : q[j].k = key
            THEN CHOOSE j \in 1..Len(q) :
                   q[j].k = key /\ \A l \in 1..(j - 1) : q[l].k # key
            ELSE 0
  IN IF at = 0
     THEN Append(q, [k |-> key, v |-> value])
     ELSE SubSeq(q, 1, at - 1) \o <<[k |-> key, v |-> value]>>
          \o SelectSeq(SubSeq(q, at + 1, Len(q)), KeepOther)

\* Object.entries(config.params).forEach(...): '' for null,
\* JSON.stringify(value) for every object (an array is one), String(value)
\* otherwise.
RECURSIVE MergeParams(_, _)
MergeParams(q, entries) ==
  IF entries = <<>>
  THEN q
  ELSE LET e == Head(entries)
           value == CASE e.v = "null" -> ""
                      [] e.v = "array" -> ArrayJson
                      [] e.v = "object" -> ObjectJson
                      [] OTHER -> ScalarString
       IN MergeParams(SetParam(q, e.k, value), Tail(entries))

\* finalUrl of the browser backend: the fragment is split off first, then
\* the query; the base is joined to a relative path when there is one.
BrowserUrl ==
  LET urlWithoutHash == Upto(cfg.href, "#")
      hash == From(cfg.href, "#")
      baseUrl == Upto(urlWithoutHash, "?")
      existingQuery == Upto(After(urlWithoutHash, "?"), "?")
      combinedParams == MergeParams(ParseQuery(existingQuery),
                                    cfg.params.entries)
      finalBaseUrl == IF ~startsWithHttp(baseUrl) /\ cfg.baseURL # <<>>
                      THEN JoinBase(cfg.baseURL, baseUrl)
                      ELSE baseUrl
  IN [path |-> finalBaseUrl, query |-> combinedParams, hash |-> hash]

\* headers[key]: "" when the object has no such key (undefined).
Get(h, key) ==
  IF \E j \in 1..Len(h) : h[j].k = key
  THEN h[CHOOSE j \in 1..Len(h) : h[j].k = key].v
  ELSE ""

\* headers[key] = value: an existing key keeps its place, a new one is
\* added last.
Put(h, key, value) ==
  IF \E j \in 1..Len(h) : h[j].k = key
  THEN [j \in 1..Len(h) |->
          IF h[j].k = key THEN [k |-> key, v |-> value] ELSE h[j]]
  ELSE Append(h, [k |-> key, v |-> value])

\* { ...defaultHeaders, ...userHeaders }; Object.assign(target, source) adds
\* the source's entries in the same way.
RECURSIVE mergeHeaders(_, _)
mergeHeaders(defaultHeaders, userHeaders) ==
  IF userHeaders = <<>>
  THEN defaultHeaders
  ELSE mergeHeaders(Put(defaultHeaders, Head(userHeaders).k, Head(userHeaders).v),
                    Tail(userHeaders))

\* body.getHeaders() of a form-data FormData
FormHeaders == <<[k |-> "content-type", v |-> "multipart/form-data"]>>

\* makeRequest's headers object when lib.request is called.
NodeHeaders ==
  LET headers == mergeHeaders(cfg.defaultHeaders, cfg.headers)
  IN CASE cfg.body = "form" -> mergeHeaders(headers, FormHeaders)
       [] cfg.body \in {"buffer", "string", "primitive"} ->
            Put(headers, "Content-Length", "byteLength")
       [] cfg.body \in {"object", "array"} ->
            Put(Put(headers, "Content-Type",
                    IF Get(headers, "Content-Type") # ""
                    THEN Get(headers, "Content-Type")
                    ELSE "application/json"),
                "Content-Length", "byteLength")
       [] OTHER -> headers

\* http.ClientRequest calls setHeader for each key of options.headers in
\* turn: a later key replaces an earlier one of the same name.
ClientRequestHeaders(h) ==
  [n \in WireNames |->
     LET at == {j \in 1..Len(h) : Lower(h[j].k) = n}
     IN IF at = {}
        THEN <<>>
        ELSE <<h[CHOOSE j \in at : \A l \in at : l <= j].v>>]

\* What makeRequest writes to the request: JSON.stringify(body) for an
\* object or an array, the body itself for a string or a Buffer,
\* String(body) for another primitive, the piped stream of a form.
NodeBody ==
  CASE cfg.body = "form" -> "multipart"
    [] cfg.body \in {"object", "array"} -> "json"
    [] cfg.body = "string" -> "utf8"
    [] cfg.body = "buffer" -> "bytes"
    [] cfg.body = "primitive" -> "String(body)"
    [] OTHER -> "none"

NodeSent ==
  [url |-> NodeUrl, headers |-> ClientRequestHeaders(NodeHeaders),
   body |-> NodeBody]

\* xhr.setRequestHeader(key, value): a value set again under the same name
\* is combined with the values already set.
setRequestHeader(w, key, value) == [w EXCEPT ![Lower(key)] = Append(@, value)]

\* for (const key in config.headers) xhr.setRequestHeader(key, ...)
RECURSIVE SetConfigHeaders(_, _)
SetConfigHeaders(w, h) ==
  IF h = <<>>
  THEN w
  ELSE SetConfigHeaders(setRequestHeader(w, Head(h).k, Head(h).v), Tail(h))

\* isFormData and isJSON: an object that is not a FormData, an array, a
\* Date or a RegExp (a binary buffer is such an object).
isFormData == cfg.body = "form"

isJSON == cfg.body \in {"object", "cyclic", "buffer"}

\* The argument of xhr.send: the form, JSON.stringify(config.body) when
\* isJSON, nothing otherwise.
BrowserBody ==
  IF isFormData THEN "multipart" ELSE IF isJSON THEN "json" ELSE "none"

\* The request headers of the XMLHttpRequest when it is sent: config.headers
\* as set, the codec's Content-Type, and what the runtime adds for the body
\* it is given (its length; the multipart type of a form when the author
\* set no Content-Type).
BrowserSent ==
  LET w0 == SetConfigHeaders(NoSent.headers, cfg.headers)
      w1 == IF ~isFormData /\ isJSON /\ Get(cfg.headers, "Content-Type") = ""
            THEN setRequestHeader(w0, "Content-Type", "application/json")
            ELSE w0
      w2 == IF isFormData /\ w1["content-type"] = <<>>
            THEN setRequestHeader(w1, "Content-Type", "multipart/form-data")
            ELSE w1
      w3 == IF BrowserBody # "none"
            THEN [w2 EXCEPT !["content-length"] = <<"byteLength">>]
            ELSE w2
  IN [url |-> BrowserUrl, headers |-> w3, body |-> BrowserBody]

\* ------------------------------------------------------------ the server

\* /test/retry counts its invocations and answers 500 to the first n, 200
\* afterwards (resetting the counter); a fixed endpoint answers its status.
ServerStatus ==
  IF cfg.endpoint.path = "retry"
  THEN IF retryCounter + 1 <= cfg.endpoint.n THEN 500 ELSE 200
  ELSE cfg.endpoint.n

ServerCounter ==
  IF cfg.endpoint.path = "retry"
  THEN IF retryCounter + 1 <= cfg.endpoint.n THEN retryCounter + 1 ELSE 0
  ELSE retryCounter

\* The text the body of the reply is, once it has all arrived.
Texts == IF cfg.reply.length = 0 THEN {"empty"} ELSE cfg.reply.texts

\* The length of the request body as written to the wire.
SentLength(body) ==
  IF body = "multipart" THEN FormLength
  ELSE IF body = "json" THEN JsonLength
  ELSE IF body = "none" THEN 0
  ELSE ByteLength

\* A progress report: {loaded, total, percent}; total 0 is undefined.
Report(loaded, total) ==
  [loaded |-> loaded, total |-> total,
   percent |-> IF total = 0 THEN 0 ELSE (loaded * 100) \div total]

\* ------------------------------------------------------------ Init

\* No call has been recorded.
\* The caller's body object before any request has used it: no listener
\* registered by a request, not piped anywhere.
FreshBody == [listeners |-> 0, piped |-> FALSE]

NoFirst == [attempts |-> 0, out |-> NoOut, script |-> <<>>]

\* The locals of a call that has not been made.
NoCall ==
  [att |-> [i \in Attempts |-> Blank], pc |-> "init", cur |-> 0,
   lastError |-> NoOut, result |-> NoOut, nAttempts |-> 0, nDelays |-> 0,
   waits |-> <<>>, signalAborted |-> FALSE]

Callers == 1..MaxCalls

\* let adapterPromise = null, and no caller has called the client.
NoLoader ==
  [adapterPromise |-> "null", loads |-> 0,
   calls |-> [c \in Callers |-> "idle"]]

\* No call has been made yet.
Fresh ==
  /\ waits = <<>>
  /\ other = NoCall
  /\ loader = NoLoader
  /\ att = [i \in Attempts |-> Blank]
  /\ pc = "init"
  /\ cur = 0
  /\ lastError = NoOut
  /\ result = NoOut
  /\ nAttempts = 0
  /\ nDelays = 0
  /\ signalAborted = FALSE
  /\ retryCounter = 0
  /\ first = NoFirst

\* Calls of every control-flow class, without headers.
Init ==
  /\ cfg \in [backend : Backends, retry : 0..MaxRetry, timeout : Timeouts,
              defaultsTimeout : DefaultTimeouts, signal : BOOLEAN,
              responseType : ResponseTypes, validateStatus : Predicates,
              body : Bodies, endpoint : Endpoints, url : Urls,
              headers : {<<>>}, defaultHeaders : {<<>>},
              href : {PlainUrl}, baseURL : {<<>>}, params : {NoParams},
              reply : {PlainReply}, onDownloadProgress : {FALSE},
              onUploadProgress : {FALSE},
              retries : {Absent}, retryDelay : {Absent},
              bodyState : {FreshBody}]
  /\ cfg.body = "form" => cfg.retry <= MaxFormRetry
  /\ Fresh

\* ------------------------------------------------------------ server backend

\* reqOptions.timeout = config.timeout || defaults.timeout, and then
\* timeout = reqOptions.timeout || defaults.timeout.
\* Variant: the process-wide default taking precedence over the request's.
NodeTimeoutDefaultsFirst ==
  IF cfg.defaultsTimeout # 0 THEN cfg.defaultsTimeout ELSE cfg.timeout

NodeTimeoutMs ==
  LET reqOptionsTimeout ==
        IF cfg.timeout # 0 THEN cfg.timeout ELSE cfg.defaultsTimeout
  IN IF reqOptionsTimeout # 0 THEN reqOptionsTimeout ELSE cfg.defaultsTimeout

\* reqOptions.timeout
NodeReqOptionsTimeout ==
  IF cfg.timeout # 0 THEN cfg.timeout ELSE cfg.defaultsTimeout

\* makeRequest up to the request being issued: the promise is created; the
\* URL is built and the body encoded, either of which rejects and returns;
\* then the transport request is created and the abort listener registered.
NodeMakeRequest ==
  LET p == [Blank EXCEPT !.promise = "pending"]
  IN IF NodeUrlRejected
     THEN reject(p, buildError(Msg("Invalid URL", 0), "ERR_INVALID_URL",
                               NoResp, 0),
                 "url")
     ELSE IF cfg.body = "cyclic"
     THEN reject(p, buildError(Msg("Failed to stringify request body", 0),
                               "ERR_BODY_STRINGIFY", NoResp, 0),
                 "encode")
     ELSE [p EXCEPT !.req = "open", !.timeout = NodeReqOptionsTimeout,
                    !.sent = NodeSent, !.listener = cfg.signal]

\* req.destroy(): an open request is torn down.
destroy(a) == IF a.req = "open" THEN [a EXCEPT !.req = "destroyed"] ELSE a

\* config.signal.removeEventListener('abort', abortHandler)
removeAbortListener(a) == [a EXCEPT !.listener = FALSE]

\* lib.request's callback: the response headers have arrived.
NodeResponseCallback(a, status) ==
  LET a1 == [a EXCEPT !.res = "headers", !.status = status]
  IN IF cfg.responseType = "stream"
     THEN resolve(a1, Response(status, "stream"), "stream")
     ELSE a1

\* downloaded += bufferChunk.length.
\* Variant: the length of the chunk taken for the count.
DownloadedChunkOnly(a, n) == n

Downloaded(a, n) == a.downloaded + n

\* res.on('data'): a chunk of n bytes is buffered and counted; a report is
\* made when the callback is given and total, the declared content-length
\* or 0, is positive.
NodeDataHandler(a, n) ==
  LET total == IF cfg.reply.declared THEN cfg.reply.length ELSE 0
      downloaded == Downloaded(a, n)
  IN [a EXCEPT !.downloaded = downloaded,
               !.progress = IF cfg.onDownloadProgress /\ total > 0
                            THEN Append(@, downloaded)
                            ELSE @]

\* The try block of res.on('end'): the buffer itself for a binary response
\* type, for a JSON content type null when the buffer is empty and
\* JSON.parse of its text (which throws) otherwise, else the text.
NodeDecode(text) ==
  IF cfg.responseType = "arraybuffer" THEN "buffer"
  ELSE IF cfg.reply.type = "application/json"
  THEN IF text = "empty" THEN "null"
       ELSE IF text = "json" THEN "parsed"
       ELSE "SyntaxError"
  ELSE "text"

\* res.on('end'): decode the buffered body, then validate the status.
NodeEndHandler(a, text) ==
  LET a1 == [a EXCEPT !.res = "ended", !.req = "complete", !.text = text]
      parsed == NodeDecode(text)
      response == Response(a.status, parsed)
  IN IF parsed = "SyntaxError"
     THEN reject(a1,
                 buildError(Msg("Failed to parse response", 0), "ERR_PARSE",
                            Response(a.status, "text"), a.status),
                 "parse")
     ELSE IF validateStatus(a.status)
          THEN resolve(removeAbortListener(a1), response, "decoded")
          ELSE reject(removeAbortListener(a1),
                      buildError(Msg("Request failed with status code", a.status),
                                 NullCode, response, a.status),
                      "decoded")

\* res.on('error')
NodeResErrorHandler(a) ==
  IF a.responseErrorHandled
  THEN a
  ELSE reject(removeAbortListener([a EXCEPT !.responseErrorHandled = TRUE]),
              buildError(Msg("Response stream error", 0), "ERR_RESPONSE",
                         NoResp, 0),
              "response")

\* req.on('error')
NodeReqErrorHandler(a) ==
  IF a.requestErrorHandled
  THEN a
  ELSE reject(removeAbortListener([a EXCEPT !.requestErrorHandled = TRUE]),
              buildError(Msg("transport error", 0), "ERR_NETWORK", NoResp, 0),
              "network")

\* req.on('timeout')
NodeTimeoutHandler(a) ==
  IF a.timeoutHandled
  THEN a
  ELSE reject(destroy([a EXCEPT !.timeoutHandled = TRUE]),
              buildError(Msg("Timeout of ms exceeded", NodeTimeoutMs),
                         "ECONNABORTED", NoResp, 0),
              "timeout")

\* abortHandler
\* Variant: an abort handler that rejects and leaves the request running.
NodeAbortNoDestroy(a) ==
  IF a.timeoutHandled
  THEN a
  ELSE reject([a EXCEPT !.timeoutHandled = TRUE],
              buildError(Msg("Request aborted", 0), "ECONNABORTED", NoResp, 0),
              "abort")

NodeAbortHandler(a) ==
  IF a.timeoutHandled
  THEN a
  ELSE reject(destroy([a EXCEPT !.timeoutHandled = TRUE]),
              buildError(Msg("Request aborted", 0), "ECONNABORTED", NoResp, 0),
              "abort")

\* The socket of a request destroyed by the handler that took the attempt
\* from a0 to a closes on the next tick, before any other event and before
\* the retry loop resumes: a request without a response raises 'error'
\* ("socket hang up"), a response still being received raises 'error' on
\* the response stream ("aborted").
SocketClosed(a0, a) ==
  IF a0.req = "open" /\ a.req = "destroyed"
  THEN IF a.res = "none"
       THEN NodeReqErrorHandler(a)
       ELSE IF a.res = "headers" /\ cfg.responseType # "stream"
            THEN NodeResErrorHandler([a EXCEPT !.res = "errored"])
            ELSE a
  ELSE a

\* body.on('error') of a multipart body piped into the request: the
\* request itself is left as it is.
NodeFormErrorHandler(a) ==
  IF a.formErrorHandled
  THEN a
  ELSE reject(removeAbortListener([a EXCEPT !.formErrorHandled = TRUE]),
              buildError(Msg("upload stream error", 0), "ERR_UPLOAD_STREAM",
                         NoResp, 0),
              "upload")

\* catch (err) { lastError = err; ... }
\* Variant: a catch that keeps the first error it saw.
CaughtFirst(prev, err) == IF prev.kind = "none" THEN err ELSE prev

Caught(prev, err) == err

\* const attempts = config.retry ?? 0
attempts == IF cfg.retry = Absent THEN 0 ELSE cfg.retry

\* const delayMs = config.retryDelay ?? 300
delayMs == IF cfg.retryDelay = Absent THEN 300 ELSE cfg.retryDelay

\* await delay(delayMs) in iteration i of the loop: the time waited.
\* Variant: a delay doubled at every retry.
WaitedBackoff(i) == delayMs * (2 ^ i)

Waited(i) == delayMs

\* if (i < attempts) await delay(delayMs)
\* Variant: a retry test that is off by one.
DelaysAfterOffByOne(i) == i + 1 < attempts

DelaysAfter(i) == i < attempts

\* for (...; i <= attempts; i++): whether the loop runs again after attempt i
LoopContinues(i) == i + 1 <= attempts

\* coreRequest past `await makeRequest` in iteration i of its loop, the
\* awaited promise having settled as in new.
Awaited(i, new) ==
  IF new.promise = "resolved"
  THEN /\ pc' = "done"
       /\ result' = new.out
       /\ UNCHANGED <<lastError, nDelays, waits>>
  ELSE /\ lastError' = Caught(lastError, new.out)
       /\ IF DelaysAfter(i)
          THEN /\ pc' = "delay"
               /\ nDelays' = nDelays + 1
               /\ waits' = Append(waits, Waited(i))
               /\ result' = result
          ELSE /\ pc' = "done"
               /\ result' = lastError'
               /\ nDelays' = nDelays
               /\ waits' = waits

\* The retry loop after a handler that took the attempt's promise from old
\* to new: it resumes only when the promise has just settled.
coreRequest(old, new) ==
  IF old.promise = "pending" /\ new.promise # "pending"
  THEN Awaited(cur, new)
  ELSE UNCHANGED <<pc, result, lastError, nDelays, waits>>

\* The caller's body object once makeRequest has set up the upload: a form
\* gets a 'data' and an 'error' listener and is piped into the request;
\* any other body is written from a local value.
NodeUpload ==
  IF cfg.body = "form"
  THEN [listeners |-> cfg.bodyState.listeners + 2, piped |-> TRUE]
  ELSE cfg.bodyState

\* The loop calls makeRequest in iteration i: a promise that is already
\* rejected when makeRequest returns resumes the loop at once.
NodeIssue(i) ==
  LET a == NodeMakeRequest
  IN /\ att' = [att EXCEPT ![i] = a]
     /\ nAttempts' = nAttempts + 1
     /\ cfg' = IF a.promise = "pending"
               THEN [cfg EXCEPT !.bodyState = NodeUpload]
               ELSE cfg
     /\ IF a.promise = "pending"
        THEN /\ pc' = "inflight"
             /\ UNCHANGED <<result, lastError, nDelays, waits>>
        ELSE Awaited(i, a)

\* The locals of a second call in flight once a handler of this call has
\* left its attempt at a, had the handled flags been declared once for the
\* module instead of inside makeRequest.
OtherCallsModuleFlags(a) ==
  [other EXCEPT !.att =
     [j \in Attempts |->
        IF other.att[j].promise = "pending"
        THEN [other.att[j] EXCEPT !.requestErrorHandled = a.requestErrorHandled,
                                  !.timeoutHandled = a.timeoutHandled,
                                  !.isHandled = a.isHandled]
        ELSE other.att[j]]]

\* The locals of a second call in flight once a handler of this call has
\* left its attempt at a: the flags, counters and chunks a handler writes
\* are declared inside makeRequest's promise executor, one set per attempt.
OtherCalls(a) == other

\* An event of attempt i's transport on the server backend: its handler
\* takes the attempt from att[i] to a, and wakes the retry loop.
NodeEvent(i, a) ==
  /\ att' = [att EXCEPT ![i] = a]
  /\ coreRequest(att[i], a)
  /\ other' = OtherCalls(a)
  /\ UNCHANGED <<cfg, first, loader, cur, nAttempts, signalAborted>>

NodeResponse(i) ==
  /\ cfg.backend = "node"
  /\ att[i].req = "open"
  /\ att[i].res = "none"
  /\ retryCounter' = ServerCounter
  /\ NodeEvent(i, NodeResponseCallback(att[i], ServerStatus))

\* A chunk of the response body arrives.
NodeData(i) ==
  /\ cfg.backend = "node"
  /\ cfg.responseType # "stream"
  /\ att[i].req = "open"
  /\ att[i].res = "headers"
  /\ \E n \in 1..(cfg.reply.length - att[i].downloaded) :
       NodeEvent(i, NodeDataHandler(att[i], n))
  /\ UNCHANGED retryCounter

\* What is left of the response body arrives and the response ends.
NodeEnd(i) ==
  /\ cfg.backend = "node"
  /\ cfg.responseType # "stream"
  /\ att[i].req = "open"
  /\ att[i].res = "headers"
  /\ LET rest == cfg.reply.length - att[i].downloaded
         a == IF rest > 0 THEN NodeDataHandler(att[i], rest) ELSE att[i]
     IN \E text \in Texts : NodeEvent(i, NodeEndHandler(a, text))
  /\ UNCHANGED retryCounter

\* body.on('data') of a form: the chunk is counted and reported with the
\* form's length, or without a total when getLengthSync throws.
NodeFormDataHandler(a, n, known) ==
  LET uploaded == a.uploaded + n
  IN [a EXCEPT !.uploaded = uploaded,
               !.upload = IF cfg.onUploadProgress
                          THEN Append(@, Report(uploaded,
                                               IF known THEN FormLength ELSE 0))
                          ELSE @]

\* The form piped into the request emits a chunk.
NodeFormData(i) ==
  /\ cfg.backend = "node"
  /\ cfg.body = "form"
  /\ att[i].req = "open"
  /\ att[i].res = "none"
  /\ \E n \in 1..(FormLength - att[i].uploaded) : \E known \in BOOLEAN :
       NodeEvent(i, NodeFormDataHandler(att[i], n, known))
  /\ UNCHANGED retryCounter

\* The caller has read the live response stream to its end.
NodeStreamEnd(i) ==
  /\ cfg.backend = "node"
  /\ cfg.responseType = "stream"
  /\ att[i].req = "open"
  /\ att[i].res = "headers"
  /\ NodeEvent(i, [att[i] EXCEPT !.res = "ended", !.req = "complete"])
  /\ UNCHANGED retryCounter

\* The connection breaks while the body is being received: the response
\* stream raises 'error'.
NodeResError(i) ==
  /\ cfg.backend = "node"
  /\ cfg.responseType # "stream"
  /\ att[i].res = "headers"
  /\ att[i].req = "open"
  /\ NodeEvent(i, NodeResErrorHandler(
                    [att[i] EXCEPT !.res = "errored", !.req = "failed"]))
  /\ UNCHANGED retryCounter

\* The request fails before any response (the connection is refused or
\* reset): the request raises 'error'.
NodeReqError(i) ==
  /\ cfg.backend = "node"
  /\ att[i].res = "none"
  /\ att[i].req = "open"
  /\ NodeEvent(i, NodeReqErrorHandler([att[i] EXCEPT !.req = "failed"]))
  /\ UNCHANGED retryCounter

\* The socket has been idle for the configured time: the request raises
\* 'timeout'.
NodeTimeout(i) ==
  /\ cfg.backend = "node"
  /\ NodeTimeoutMs > 0
  /\ att[i].req = "open"
  /\ NodeEvent(i, SocketClosed(att[i], NodeTimeoutHandler(att[i])))
  /\ UNCHANGED retryCounter

\* The multipart body stream fails while it is piped into the request.
NodeFormError(i) ==
  /\ cfg.backend = "node"
  /\ cfg.body = "form"
  /\ att[i].req = "open"
  /\ att[i].res = "none"
  /\ ~att[i].formErrorHandled
  /\ NodeEvent(i, NodeFormErrorHandler(att[i]))
  /\ UNCHANGED retryCounter

\* The first call of makeRequest by coreRequest's loop (i = 0).
NodeCall ==
  /\ cfg.backend = "node"
  /\ pc = "init"
  /\ NodeIssue(0)
  /\ UNCHANGED <<first, other, loader, cur, signalAborted, retryCounter>>

\* delay's timer fires: the loop increments i and, while i <= attempts,
\* calls makeRequest again; otherwise it throws lastError.
NodeDelayElapsed ==
  /\ cfg.backend = "node"
  /\ pc = "delay"
  /\ IF LoopContinues(cur)
     THEN /\ cur' = cur + 1
          /\ NodeIssue(cur + 1)
     ELSE /\ pc' = "done"
          /\ result' = lastError
          /\ UNCHANGED <<cfg, cur, att, nAttempts, lastError, nDelays, waits>>
  /\ UNCHANGED <<first, other, loader, signalAborted, retryCounter>>

\* ------------------------------------------------------------ browser backend

\* if (config.timeout) xhr.timeout = config.timeout
BrowserTimeoutMs == cfg.timeout

\* config.retry ?? config.retries ?? 0
retryCount ==
  IF cfg.retry # Absent THEN cfg.retry
  ELSE IF cfg.retries # Absent THEN cfg.retries
  ELSE 0

\* setTimeout(..., config.retryDelay ?? 500)
BrowserDelayMs == IF cfg.retryDelay = Absent THEN 500 ELSE cfg.retryDelay

\* makeRequest(attempt) up to xhr.send: the XMLHttpRequest is constructed
\* and opened (xhr.open throws on a URL it cannot parse), its timeout is
\* set, the abort listener is registered, the headers are set, and the body
\* is encoded in the call of xhr.send (JSON.stringify throws on a cyclic
\* object). An exception leaves the executor and rejects the promise.
BrowserMakeRequest ==
  LET p == [Blank EXCEPT !.promise = "pending"]
      opened == [p EXCEPT !.req = "opened", !.timeout = BrowserTimeoutMs,
                          !.listener = cfg.signal]
  IN IF cfg.url = "invalid"
     THEN reject([p EXCEPT !.req = "unsent"], Thrown("SyntaxError"), "url")
     ELSE IF cfg.body = "cyclic"
     THEN reject(opened, Thrown("TypeError"), "encode")
     ELSE [opened EXCEPT !.req = "open", !.sent = BrowserSent]

\* xhr.abort(): an open request is aborted; a finished one is left alone.
xhrAbort(a) == IF a.req = "open" THEN [a EXCEPT !.req = "aborted"] ELSE a

\* retryRequest(): abort, drop the abort listener, set the retry timer.
retryRequest(a) == [removeAbortListener(xhrAbort(a)) EXCEPT !.retrying = TRUE]

\* abortHandler
BrowserAbortHandler(a) ==
  reject(xhrAbort(a),
         buildError(Msg("Request aborted", 0), "ECONNABORTED", NoResp, 0),
         "abort")

\* xhr.upload.onprogress: the event reports the bytes of the request body
\* sent so far and their total.
BrowserUploadHandler(a, n) ==
  LET loaded == a.uploaded + n
  IN [a EXCEPT !.uploaded = loaded,
               !.upload = IF cfg.onUploadProgress
                          THEN Append(@, Report(loaded, SentLength(a.sent.body)))
                          ELSE @]

\* xhr.onprogress: the event reports the bytes received so far; its length
\* is computable when the response declares a content-length that is not 0.
BrowserProgressHandler(a, loaded) ==
  LET lengthComputable == cfg.reply.declared /\ cfg.reply.length > 0
  IN [a EXCEPT !.downloaded = loaded,
               !.progress = IF cfg.onDownloadProgress /\ lengthComputable
                            THEN Append(@, loaded)
                            ELSE @]

\* parseResponse: xhr.response for a binary response type; for a JSON
\* content type null when the text is empty or white space and JSON.parse
\* of it (which throws) otherwise; else the text.
parseResponse(text) ==
  IF cfg.responseType = "arraybuffer" THEN "buffer"
  ELSE IF cfg.reply.type = "application/json"
  THEN IF text \in {"empty", "blank"} THEN "null"
       ELSE IF text = "json" THEN "parsed"
       ELSE "SyntaxError"
  ELSE "text"

\* safeExtractFilename: undefined without the header or without a match,
\* decodeURIComponent of the parameter otherwise, undefined when it throws.
safeExtractFilename ==
  IF cfg.reply.disposition = "filename" THEN "decoded" ELSE NoFilename

\* xhr.onload
BrowserOnload(a, text) ==
  IF a.isHandled
  THEN a
  ELSE LET a1 == removeAbortListener([a EXCEPT !.isHandled = TRUE,
                                                !.text = text])
           responseData == parseResponse(text)
           response == [Response(a.status, responseData)
                          EXCEPT !.filename = safeExtractFilename]
       IN IF responseData = "SyntaxError"
          THEN reject(a1,
                      buildError(Msg("Failed to parse JSON response", 0),
                                 "ERR_PARSE", Response(a.status, "text"),
                                 a.status),
                      "parse")
          ELSE IF validateStatus(a.status)
               THEN resolve(a1, response, "decoded")
               ELSE reject(a1,
                           buildError(Msg("Request failed with status code",
                                          a.status),
                                      NullCode, response, a.status),
                           "decoded")

\* xhr.onerror for makeRequest(attempt)
BrowserOnerror(a, attempt) ==
  IF a.isHandled
  THEN a
  ELSE LET a1 == removeAbortListener([a EXCEPT !.isHandled = TRUE])
       IN IF attempt < retryCount
          THEN retryRequest([a1 EXCEPT !.cause = "network"])
          ELSE reject(a1,
                      buildError(Msg("Network error", 0), "ERR_NETWORK",
                                 NoResp, 0),
                      "network")

\* xhr.ontimeout for makeRequest(attempt)
BrowserOntimeout(a, attempt) ==
  IF a.isHandled
  THEN a
  ELSE LET a1 == removeAbortListener([a EXCEPT !.isHandled = TRUE])
       IN IF attempt < retryCount
          THEN retryRequest([a1 EXCEPT !.cause = "timeout"])
          ELSE reject(a1,
                      buildError(Msg("Timeout of ms exceeded", BrowserTimeoutMs),
                                 "ECONNABORTED", NoResp, 0),
                      "timeout")

\* makeRequest(attempt + 1).then(resolve).catch(reject): when attempt i
\* settles, the promise of every earlier attempt that is waiting on it
\* settles with the same value.
Chained(i, a) ==
  [j \in Attempts |->
     IF j = i THEN a
     ELSE IF j < i /\ att[j].retrying
          THEN Settle(att[j], a.promise, a.out, att[j].cause)
          ELSE att[j]]

\* What follows a handler of attempt i that took it from att[i] to a.
BrowserEvent(i, a) ==
  /\ IF a.retrying /\ ~att[i].retrying
     THEN /\ att' = [att EXCEPT ![i] = a]
          /\ pc' = "delay"
          /\ nDelays' = nDelays + 1
          /\ waits' = Append(waits, BrowserDelayMs)
          /\ result' = result
     ELSE IF att[i].promise = "pending" /\ a.promise # "pending"
     THEN /\ att' = Chained(i, a)
          /\ pc' = "done"
          /\ result' = att'[0].out
          /\ nDelays' = nDelays
          /\ waits' = waits
     ELSE /\ att' = [att EXCEPT ![i] = a]
          /\ UNCHANGED <<pc, nDelays, waits, result>>
  /\ other' = OtherCalls(a)
  /\ UNCHANGED <<cfg, first, loader, cur, lastError, nAttempts, signalAborted>>

\* makeRequest(attempt) is called: a promise that is already rejected when
\* it returns settles the call (and the attempts chained to it) at once.
BrowserIssue(i) ==
  LET a == BrowserMakeRequest
  IN /\ nAttempts' = nAttempts + 1
     /\ IF a.promise = "pending"
        THEN /\ att' = [att EXCEPT ![i] = a]
             /\ pc' = "inflight"
             /\ result' = result
        ELSE /\ att' = Chained(i, a)
             /\ pc' = "done"
             /\ result' = att'[0].out

\* browserAdapter's makeRequest(0)
BrowserCall ==
  /\ cfg.backend = "browser"
  /\ pc = "init"
  /\ BrowserIssue(0)
  /\ UNCHANGED <<cfg, first, other, loader, cur, lastError, nDelays, waits, signalAborted, retryCounter>>

\* A part of the request body has been sent: the runtime fires a progress
\* event at xhr.upload.
BrowserUploadProgress(i) ==
  /\ cfg.backend = "browser"
  /\ cfg.onUploadProgress
  /\ att[i].req = "open"
  /\ att[i].downloaded = 0
  /\ \E n \in 1..(SentLength(att[i].sent.body) - att[i].uploaded) :
       BrowserEvent(i, BrowserUploadHandler(att[i], n))
  /\ UNCHANGED retryCounter

\* A part of the response body has been received: the runtime fires a
\* progress event at xhr.
BrowserProgress(i) ==
  /\ cfg.backend = "browser"
  /\ cfg.onDownloadProgress
  /\ att[i].req = "open"
  /\ \E n \in 1..(cfg.reply.length - att[i].downloaded) :
       BrowserEvent(i, BrowserProgressHandler(att[i], att[i].downloaded + n))
  /\ UNCHANGED retryCounter

\* The response has been received in full: the runtime fires a last
\* progress event with all the bytes received, then load.
BrowserLoad(i) ==
  /\ cfg.backend = "browser"
  /\ att[i].req = "open"
  /\ retryCounter' = ServerCounter
  /\ LET a == IF cfg.onDownloadProgress
              THEN BrowserProgressHandler(att[i], cfg.reply.length)
              ELSE [att[i] EXCEPT !.downloaded = cfg.reply.length]
     IN \E text \in Texts :
          BrowserEvent(i, BrowserOnload(
                            [a EXCEPT !.req = "complete", !.res = "ended",
                                      !.status = ServerStatus],
                            text))

\* The request fails at the network level.
BrowserError(i) ==
  /\ cfg.backend = "browser"
  /\ att[i].req = "open"
  /\ BrowserEvent(i, BrowserOnerror([att[i] EXCEPT !.req = "failed"], i))
  /\ UNCHANGED retryCounter

\* xhr.timeout has passed: the runtime terminates the request.
BrowserTimeout(i) ==
  /\ cfg.backend = "browser"
  /\ BrowserTimeoutMs > 0
  /\ att[i].req = "open"
  /\ BrowserEvent(i, BrowserOntimeout([att[i] EXCEPT !.req = "aborted"], i))
  /\ UNCHANGED retryCounter

\* retryRequest's timer fires: makeRequest(attempt + 1)
BrowserDelayElapsed ==
  /\ cfg.backend = "browser"
  /\ pc = "delay"
  /\ cur' = cur + 1
  /\ BrowserIssue(cur + 1)
  /\ UNCHANGED <<cfg, first, other, loader, lastError, nDelays, waits, signalAborted, retryCounter>>

\* ------------------------------------------------------------ the caller

\* The caller aborts config.signal: every abort listener still registered
\* on it runs, in the order of registration.
NodeSignalAbort ==
  /\ cfg.backend = "node"
  /\ cfg.signal
  /\ ~signalAborted
  /\ signalAborted' = TRUE
  /\ att' = [i \in Attempts |->
               IF att[i].listener
               THEN SocketClosed(att[i], NodeAbortHandler(att[i]))
               ELSE att[i]]
  /\ coreRequest(att[cur], att'[cur])
  /\ UNCHANGED <<cfg, first, other, loader, cur, nAttempts, retryCounter>>

BrowserSignalAbort ==
  /\ cfg.backend = "browser"
  /\ cfg.signal
  /\ ~signalAborted
  /\ signalAborted' = TRUE
  /\ IF att[cur].listener
     THEN /\ att' = Chained(cur, BrowserAbortHandler(att[cur]))
          /\ pc' = "done"
          /\ result' = att'[0].out
     ELSE UNCHANGED <<att, pc, result>>
  /\ UNCHANGED <<cfg, first, other, loader, cur, lastError, nAttempts, nDelays, waits, retryCounter>>

\* ------------------------------------------------------------ specification

Next ==
  \/ NodeCall
  \/ \E i \in Attempts : NodeResponse(i)
  \/ \E i \in Attempts : NodeEnd(i)
  \/ \E i \in Attempts : NodeStreamEnd(i)
  \/ \E i \in Attempts : NodeResError(i)
  \/ \E i \in Attempts : NodeReqError(i)
  \/ \E i \in Attempts : NodeTimeout(i)
  \/ \E i \in Attempts : NodeFormError(i)
  \/ NodeDelayElapsed
  \/ NodeSignalAbort
  \/ BrowserCall
  \/ \E i \in Attempts : BrowserLoad(i)
  \/ \E i \in Attempts : BrowserError(i)
  \/ \E i \in Attempts : BrowserTimeout(i)
  \/ BrowserDelayElapsed
  \/ BrowserSignalAbort

Spec == Init /\ [][Next]_vars

\* ------------------------------------------------------------ both backends

\* What the server and the transport did to the call: for each attempt,
\* the event that ended it and the status it received.
Script == [i \in Attempts |-> <<att[i].cause, att[i].status>>]

\* The application makes a call on the server backend (index.ts loads
\* nodeAdapter when there is no window) with no signal, a buffered response
\* type and a body that is not a form.
InitPair ==
  /\ Init
  /\ cfg.backend = "node"
  /\ ~cfg.signal
  /\ cfg.responseType = "json"
  /\ cfg.body # "form"

\* The call on the server backend has ended: the same call (same url,
\* config and defaults) is made on the browser backend against a server in
\* its initial state, the first call's record being kept.
SameCallOnBrowser ==
  /\ cfg.backend = "node"
  /\ pc = "done"
  /\ first = NoFirst
  /\ first' = [attempts |-> nAttempts, out |-> result, script |-> Script]
  /\ cfg' = [cfg EXCEPT !.backend = "browser", !.bodyState = FreshBody]
  /\ att' = [i \in Attempts |-> Blank]
  /\ pc' = "init"
  /\ cur' = 0
  /\ lastError' = NoOut
  /\ result' = NoOut
  /\ nAttempts' = 0
  /\ nDelays' = 0
  /\ waits' = <<>>
  /\ retryCounter' = 0
  /\ UNCHANGED <<signalAborted, other, loader>>

NextPair ==
  \/ NodeCall
  \/ \E i \in Attempts : NodeResponse(i)
  \/ \E i \in Attempts : NodeEnd(i)
  \/ \E i \in Attempts : NodeResError(i)
  \/ \E i \in Attempts : NodeReqError(i)
  \/ \E i \in Attempts : NodeTimeout(i)
  \/ NodeDelayElapsed
  \/ SameCallOnBrowser
  \/ BrowserCall
  \/ \E i \in Attempts : BrowserLoad(i)
  \/ \E i \in Attempts : BrowserError(i)
  \/ \E i \in Attempts : BrowserTimeout(i)
  \/ BrowserDelayElapsed

SpecPair == InitPair /\ [][NextPair]_vars

\* ------------------------------------------------------------ request building

\* Calls of every body kind with every headers object and every default
\* headers object, answered at once: what each backend sends.
InitWire ==
  /\ cfg \in [backend : Backends, retry : {0}, timeout : {0},
              defaultsTimeout : {0}, signal : {FALSE},
              responseType : {"json"},
              validateStatus : {[given |-> FALSE, accepts |-> {}]},
              body : BodyKinds, endpoint : {[path |-> "retry", n |-> 0]},
              url : {"valid"},
              headers : HeaderObjects, defaultHeaders : HeaderObjects,
              href : {PlainUrl}, baseURL : {<<>>}, params : {NoParams},
              reply : {PlainReply}, onDownloadProgress : {FALSE},
              onUploadProgress : {FALSE},
              retries : {Absent}, retryDelay : {Absent},
              bodyState : {FreshBody}]
  /\ Fresh

NextWire ==
  \/ NodeCall
  \/ BrowserCall

SpecWire == InitWire /\ [][NextWire]_vars

\* Calls with every URL text, every base URL and every params object,
\* without body or headers: the URL each backend requests.
InitUrl ==
  /\ cfg \in [backend : Backends, retry : {0}, timeout : {0},
              defaultsTimeout : {0}, signal : {FALSE},
              responseType : {"json"},
              validateStatus : {[given |-> FALSE, accepts |-> {}]},
              body : {"none"}, endpoint : {[path |-> "retry", n |-> 0]},
              url : {"valid"},
              headers : {<<>>}, defaultHeaders : {<<>>},
              href : UrlTexts, baseURL : BaseUrls, params : ParamObjects,
              reply : {PlainReply}, onDownloadProgress : {FALSE},
              onUploadProgress : {FALSE},
              retries : {Absent}, retryDelay : {Absent},
              bodyState : {FreshBody}]
  /\ Fresh

NextUrl ==
  \/ NodeCall
  \/ BrowserCall

SpecUrl == InitUrl /\ [][NextUrl]_vars

\* ------------------------------------------------------------ transfer

\* Calls answered by every reply, with both progress callbacks given, every
\* body whose length is known, and a buffered response type: what each
\* backend reports while the bodies are transferred, and what it decodes.
InitTransfer ==
  /\ cfg \in [backend : Backends, retry : {0}, timeout : {0},
              defaultsTimeout : {0}, signal : {FALSE},
              responseType : {"json", "arraybuffer"},
              validateStatus : {[given |-> FALSE, accepts |-> {}]},
              body : {"none", "form", "string", "buffer"},
              endpoint : {[path |-> "retry", n |-> 0], [path |-> "fixed", n |-> 404]},
              url : {"valid"},
              headers : {<<>>}, defaultHeaders : {<<>>},
              href : {PlainUrl}, baseURL : {<<>>}, params : {NoParams},
              reply : Replies, onDownloadProgress : {TRUE},
              onUploadProgress : {TRUE},
              retries : {Absent}, retryDelay : {Absent},
              bodyState : {FreshBody}]
  /\ Fresh

NextTransfer ==
  \/ NodeCall
  \/ \E i \in Attempts : NodeFormData(i)
  \/ \E i \in Attempts : NodeResponse(i)
  \/ \E i \in Attempts : NodeData(i)
  \/ \E i \in Attempts : NodeEnd(i)
  \/ BrowserCall
  \/ \E i \in Attempts : BrowserUploadProgress(i)
  \/ \E i \in Attempts : BrowserProgress(i)
  \/ \E i \in Attempts : BrowserLoad(i)

SpecTransfer == InitTransfer /\ [][NextTransfer]_vars

\* ------------------------------------------------------------ defaults

\* Values the application assigns to the fields of the process-wide
\* defaults after start-up.
NewBaseUrl == <<"http://h", "/", "v2">>

NewDefaultHeaders == <<[k |-> "Accept", v |-> "text/plain"]>>

\* Calls of a relative URL that may be retried, made while the defaults
\* hold a base URL, no headers and no timeout.
InitDefaults ==
  /\ cfg \in [backend : Backends, retry : 1..MaxRetry, timeout : Timeouts,
              defaultsTimeout : {0}, signal : {FALSE},
              responseType : {"json"},
              validateStatus : {[given |-> FALSE, accepts |-> {}]},
              body : {"none"}, endpoint : {[path |-> "retry", n |-> 0]},
              url : {"valid"},
              headers : {<<>>}, defaultHeaders : {<<>>},
              href : {<<"p">>}, baseURL : {<<"http://h">>},
              params : {NoParams},
              reply : {PlainReply}, onDownloadProgress : {FALSE},
              onUploadProgress : {FALSE},
              retries : {Absent}, retryDelay : {Absent},
              bodyState : {FreshBody}]
  /\ Fresh

\* The application assigns fields of the defaults (setu.defaults.baseURL =
\* ..., and so on) while the call waits between two attempts.
SetDefaults ==
  /\ pc = "delay"
  /\ \E b \in {cfg.baseURL, NewBaseUrl} :
     \E h \in {cfg.defaultHeaders, NewDefaultHeaders} :
     \E t \in DefaultTimeouts :
       /\ cfg' = [cfg EXCEPT !.baseURL = b, !.defaultHeaders = h,
                             !.defaultsTimeout = t]
       /\ cfg' # cfg
  /\ UNCHANGED <<att, pc, cur, lastError, result, nAttempts, nDelays, waits,
                 signalAborted, retryCounter, first, other, loader>>

NextDefaults ==
  \/ NodeCall
  \/ \E i \in Attempts : NodeReqError(i)
  \/ NodeDelayElapsed
  \/ BrowserCall
  \/ \E i \in Attempts : BrowserError(i)
  \/ BrowserDelayElapsed
  \/ SetDefaults

SpecDefaults == InitDefaults /\ [][NextDefaults]_vars

\* ------------------------------------------------------------ retries

\* The retry count given as retry, as retries, or not at all.
RetryOptions == {Absent} \cup (0..MaxRetry)

\* Calls with every combination of the retry options and with or without
\* a retryDelay, over a transport that may fail, time out or answer 200.
InitRetries ==
  /\ cfg \in [backend : Backends, retry : RetryOptions, timeout : {1000},
              defaultsTimeout : {0}, signal : {FALSE},
              responseType : {"json"},
              validateStatus : {[given |-> FALSE, accepts |-> {}]},
              body : {"none"}, endpoint : {[path |-> "retry", n |-> 0]},
              url : {"valid"},
              headers : {<<>>}, defaultHeaders : {<<>>},
              href : {PlainUrl}, baseURL : {<<>>}, params : {NoParams},
              reply : {PlainReply}, onDownloadProgress : {FALSE},
              onUploadProgress : {FALSE},
              retries : RetryOptions, retryDelay : {Absent, 1000},
              bodyState : {FreshBody}]
  /\ Fresh

NextRetries ==
  \/ NodeCall
  \/ \E i \in Attempts : NodeResponse(i)
  \/ \E i \in Attempts : NodeEnd(i)
  \/ \E i \in Attempts : NodeReqError(i)
  \/ \E i \in Attempts : NodeTimeout(i)
  \/ NodeDelayElapsed
  \/ BrowserCall
  \/ \E i \in Attempts : BrowserLoad(i)
  \/ \E i \in Attempts : BrowserError(i)
  \/ \E i \in Attempts : BrowserTimeout(i)
  \/ BrowserDelayElapsed

SpecRetries == InitRetries /\ [][NextRetries]_vars

\* ------------------------------------------------------------ scheduling

\* Calls with and without a timeout of their own and a default timeout,
\* over a server and a transport that may answer, fail or stay silent.
InitLive ==
  /\ cfg \in [backend : Backends, retry : 0..MaxRetry, timeout : Timeouts,
              defaultsTimeout : DefaultTimeouts, signal : {FALSE},
              responseType : ResponseTypes,
              validateStatus : {[given |-> FALSE, accepts |-> {}]},
              body : {"none"}, endpoint : {[path |-> "retry", n |-> 0]},
              url : {"valid"},
              headers : {<<>>}, defaultHeaders : {<<>>},
              href : {PlainUrl}, baseURL : {<<>>}, params : {NoParams},
              reply : {PlainReply}, onDownloadProgress : {FALSE},
              onUploadProgress : {FALSE},
              retries : {Absent}, retryDelay : {Absent},
              bodyState : {FreshBody}]
  /\ Fresh

NextLive ==
  \/ NodeCall
  \/ \E i \in Attempts : NodeResponse(i)
  \/ \E i \in Attempts : NodeEnd(i)
  \/ \E i \in Attempts : NodeStreamEnd(i)
  \/ \E i \in Attempts : NodeResError(i)
  \/ \E i \in Attempts : NodeReqError(i)
  \/ \E i \in Attempts : NodeTimeout(i)
  \/ NodeDelayElapsed
  \/ BrowserCall
  \/ \E i \in Attempts : BrowserLoad(i)
  \/ \E i \in Attempts : BrowserError(i)
  \/ \E i \in Attempts : BrowserTimeout(i)
  \/ BrowserDelayElapsed

\* The event loop runs what is ready: the call itself and every timer that
\* has been armed (a request timeout, a retry delay) fire; the server and
\* the network owe nothing.
Fairness ==
  /\ WF_vars(NodeCall)
  /\ WF_vars(BrowserCall)
  /\ WF_vars(NodeDelayElapsed)
  /\ WF_vars(BrowserDelayElapsed)
  /\ \A i \in Attempts : WF_vars(NodeTimeout(i))
  /\ \A i \in Attempts : WF_vars(BrowserTimeout(i))

SpecLive == InitLive /\ [][NextLive]_vars /\ Fairness

\* ------------------------------------------------------------ two calls in flight

\* The locals of the call whose handlers run next.
Locals ==
  [att |-> att, pc |-> pc, cur |-> cur, lastError |-> lastError,
   result |-> result, nAttempts |-> nAttempts, nDelays |-> nDelays,
   waits |-> waits, signalAborted |-> signalAborted]

\* The event loop turns to the second call (Promise.all over two calls of
\* the client): the next handler to run belongs to it.
Switch ==
  /\ other' = Locals
  /\ att' = other.att
  /\ pc' = other.pc
  /\ cur' = other.cur
  /\ lastError' = other.lastError
  /\ result' = other.result
  /\ nAttempts' = other.nAttempts
  /\ nDelays' = other.nDelays
  /\ waits' = other.waits
  /\ signalAborted' = other.signalAborted
  /\ UNCHANGED <<cfg, retryCounter, first, loader>>

\* Two calls with equal configs, each with its own signal, to an endpoint
\* that answers every request alike.
InitTwo ==
  /\ cfg \in [backend : Backends, retry : {1}, timeout : {1000},
              defaultsTimeout : {0}, signal : {TRUE},
              responseType : {"json"},
              validateStatus : {[given |-> FALSE, accepts |-> {}]},
              body : {"none"}, endpoint : {[path |-> "fixed", n |-> 200]},
              url : {"valid"},
              headers : {<<>>}, defaultHeaders : {<<>>},
              href : {PlainUrl}, baseURL : {<<>>}, params : {NoParams},
              reply : {PlainReply}, onDownloadProgress : {TRUE},
              onUploadProgress : {FALSE},
              retries : {Absent}, retryDelay : {Absent},
              bodyState : {FreshBody}]
  /\ Fresh

NextTwo ==
  \/ Switch
  \/ NodeCall
  \/ \E i \in Attempts : NodeResponse(i)
  \/ \E i \in Attempts : NodeData(i)
  \/ \E i \in Attempts : NodeEnd(i)
  \/ \E i \in Attempts : NodeReqError(i)
  \/ \E i \in Attempts : NodeTimeout(i)
  \/ NodeSignalAbort
  \/ NodeDelayElapsed
  \/ BrowserCall
  \/ \E i \in Attempts : BrowserProgress(i)
  \/ \E i \in Attempts : BrowserLoad(i)
  \/ \E i \in Attempts : BrowserError(i)
  \/ \E i \in Attempts : BrowserTimeout(i)
  \/ BrowserSignalAbort
  \/ BrowserDelayElapsed

SpecTwo == InitTwo /\ [][NextTwo]_vars

\* ------------------------------------------------------------ adapter loading

\* The variables of the call itself, which loading the adapter leaves alone.
callVars ==
  <<cfg, att, pc, cur, lastError, result, nAttempts, nDelays, waits,
    signalAborted, retryCounter, first, other>>

\* The adapter the dynamic import gives: browserAdapter when isBrowser,
\* coreRequest otherwise.
Adapter == IF cfg.backend = "browser" THEN "browserAdapter" ELSE "coreRequest"

\* The catch of the load rethrows: adapterPromise keeps the rejected
\* promise.
\* Variant: a failed load that clears adapterPromise.
LoadFailedReset(l) == [l EXCEPT !.adapterPromise = "null"]

LoadFailed(l) == [l EXCEPT !.adapterPromise = "rejected"]

\* loadAdapter(): the promise already there, or a new load.
loadAdapter(l) ==
  IF l.adapterPromise # "null"
  THEN l
  ELSE [l EXCEPT !.adapterPromise = "pending", !.loads = @ + 1]

\* Caller c calls the client (a wrapper, the client itself): it awaits
\* loadAdapter().
ClientCall(c) ==
  /\ loader.calls[c] = "idle"
  /\ loader.loads <= MaxCalls
  /\ loader' = [loadAdapter(loader) EXCEPT !.calls[c] = "awaiting"]
  /\ UNCHANGED callVars

\* The dynamic import ends: with the adapter, or with an error (the import
\* fails, or what it exports is not a function).
LoadEnds ==
  /\ loader.adapterPromise = "pending"
  /\ \E ok \in BOOLEAN :
       loader' = IF ok
                 THEN [loader EXCEPT !.adapterPromise = "fulfilled"]
                 ELSE LoadFailed(loader)
  /\ UNCHANGED callVars

\* The await of caller c resumes: it calls the adapter it got, or rejects
\* with the load error.
ClientResumes(c) ==
  /\ loader.calls[c] = "awaiting"
  /\ loader.adapterPromise \in {"fulfilled", "rejected"}
  /\ loader' = [loader EXCEPT !.calls[c] =
                  IF loader.adapterPromise = "fulfilled"
                  THEN Adapter ELSE "rejected"]
  /\ UNCHANGED callVars

\* The call of caller c is over; the caller may call again.
ClientReturns(c) ==
  /\ loader.calls[c] \in {"browserAdapter", "coreRequest", "rejected"}
  /\ loader' = [loader EXCEPT !.calls[c] = "idle"]
  /\ UNCHANGED callVars

InitLoad ==
  /\ cfg \in [backend : Backends, retry : {0}, timeout : {0},
              defaultsTimeout : {0}, signal : {FALSE},
              responseType : {"json"},
              validateStatus : {[given |-> FALSE, accepts |-> {}]},
              body : {"none"}, endpoint : {[path |-> "retry", n |-> 0]},
              url : {"valid"},
              headers : {<<>>}, defaultHeaders : {<<>>},
              href : {PlainUrl}, baseURL : {<<>>}, params : {NoParams},
              reply : {PlainReply}, onDownloadProgress : {FALSE},
              onUploadProgress : {FALSE},
              retries : {Absent}, retryDelay : {Absent},
              bodyState : {FreshBody}]
  /\ Fresh

NextLoad ==
  \/ \E c \in Callers : ClientCall(c)
  \/ LoadEnds
  \/ \E c \in Callers : ClientResumes(c)
  \/ \E c \in Callers : ClientReturns(c)

SpecLoad == InitLoad /\ [][NextLoad]_vars

\* ------------------------------------------------------------ properties

Settled == {"resolved", "rejected"}

\* No transport fault, timeout, abort or undecodable body has ended an
\* attempt of the call: every attempt so far that ended, ended with a
\* decoded response.
Undisturbed == \A i \in Attempts : att[i].cause \in {"none", "decoded"}

C2_RetryUntilSuccess ==
  ( /\ cfg.backend = "node"
    /\ cfg.endpoint.path = "retry"
    /\ cfg.endpoint.n <= cfg.retry
    /\ cfg.responseType # "stream"
    /\ cfg.validateStatus.given =>
         (200 \in cfg.validateStatus.accepts /\ 500 \notin cfg.validateStatus.accepts)
    /\ Undisturbed )
  => /\ nAttempts <= cfg.endpoint.n + 1
     /\ nDelays <= cfg.endpoint.n
     /\ pc = "done" =>
          /\ result.kind = "response"
          /\ result.response.status = 200
          /\ nAttempts = cfg.endpoint.n + 1
          /\ nDelays = cfg.endpoint.n

\* The tested case: retry = 2 against two failures, resolved at the third
\* attempt after two delays.
C2_TestedCaseWitness ==
  /\ cfg.backend = "node"
  /\ cfg.endpoint = [path |-> "retry", n |-> 2]
  /\ cfg.retry = 2
  /\ Undisturbed
  /\ pc = "done"
  /\ result.kind = "response"
  /\ result.response.status = 200
  /\ att[0].out.status = 500
  /\ att[1].out.status = 500
  /\ nAttempts = 3
  /\ nDelays = 2

\* C3: a response that fails status validation is never retried. When the
\* first attempt was rejected because its decoded response failed the
\* status predicate, the call has made exactly one attempt, has waited no
\* delay, and has rejected with that attempt's error.
C3_StatusFailureNotRetried ==
  (att[0].cause = "decoded" /\ att[0].promise = "rejected")
  => /\ nAttempts = 1
     /\ nDelays = 0
     /\ pc = "done"
     /\ result = att[0].out
     /\ result.code = NullCode

\* C4: a call makes at least 1 and at most R+1 attempts, waits a delay only
\* between two attempts, and when the last of the R+1 attempts has failed
\* it has rejected with that attempt's failure, with R delays waited and
\* none after it.
C4_AttemptBounds ==
  /\ nAttempts <= cfg.retry + 1
  /\ nDelays <= cfg.retry
  /\ nDelays = (IF pc = "delay" THEN nAttempts ELSE nAttempts - 1)
       \/ pc = "init"
  /\ pc = "done" => nAttempts >= 1
  /\ att[cfg.retry].promise = "rejected" =>
       /\ pc = "done"
       /\ nAttempts = cfg.retry + 1
       /\ nDelays = cfg.retry
       /\ result.kind = "error"
       /\ result = att[cfg.retry].out

\* All three attempts of a call with retry = 2 failed, the last one
\* differently from the first.
C4_ExhaustedWitness ==
  /\ cfg.retry = 2
  /\ att[2].promise = "rejected"
  /\ att[2].out # att[0].out
  /\ att[0].cause # "none"
  /\ pc = "done"

\* C5: the attempts of a call are strictly sequential: at no time are the
\* transports of two attempts of the call open.
C5_AttemptsSequential ==
  Cardinality({i \in Attempts : att[i].req = "open"}) <= 1

\* C6: when the caller's signal fires while the call waits in the
\* inter-retry delay, the call rejects at once (and so issues no further
\* attempt).
C6_AbortDuringDelayRejects ==
  [][(pc = "delay" /\ ~signalAborted /\ signalAborted')
       => (pc' = "done" /\ result'.kind = "error" /\ nAttempts' = nAttempts)]_vars

\* C7: when the caller's signal fires while an attempt is in flight and
\* not yet settled, the attempt's transport is aborted and the attempt is
\* rejected with code ECONNABORTED, message 'Request aborted' and no
\* response.
C7_AbortInFlight ==
  [][\A i \in Attempts :
       ( /\ ~signalAborted
         /\ signalAborted'
         /\ att[i].promise = "pending"
         /\ att[i].req = "open" )
       => /\ att'[i].req \in {"destroyed", "aborted"}
          /\ att'[i].promise = "rejected"
          /\ att'[i].out.kind = "error"
          /\ att'[i].out.code = "ECONNABORTED"
          /\ att'[i].out.message = Msg("Request aborted", 0)
          /\ att'[i].out.response = NoResp]_vars

\* A retry attempt was ended by the caller's abort.
C7_AbortedWitness ==
  \E i \in Attempts :
    /\ i > 0
    /\ att[i].cause = "abort"
    /\ att[i].promise = "rejected"
    /\ att[i].req \in {"destroyed", "aborted"}
    /\ signalAborted

\* C8 as stated: with a request timeout T > 0, every attempt ended by its
\* timeout is aborted and rejected with code ECONNABORTED and a message
\* containing T; without any timeout no attempt ends by timeout.
C8_TimeoutAlwaysRejects ==
  /\ cfg.timeout > 0 =>
       \A i \in Attempts :
         att[i].cause = "timeout" =>
           /\ att[i].req \in {"destroyed", "aborted"}
           /\ att[i].promise = "rejected"
           /\ att[i].out.code = "ECONNABORTED"
           /\ att[i].out.message.n = cfg.timeout
  /\ (cfg.timeout = 0 /\ cfg.defaultsTimeout = 0) =>
       \A i \in Attempts : att[i].cause # "timeout"

\* C8, amended: with a request timeout T > 0, every attempt ended by its
\* timeout is aborted and its own response is never received; on the
\* server backend, and on the browser backend when it is the call's last
\* attempt, it is rejected with code ECONNABORTED, a message containing T
\* and no response, while an earlier browser attempt is handed to the retry
\* without being rejected; without any timeout no attempt ends by timeout.
C8_TimeoutRejects ==
  /\ cfg.timeout > 0 =>
       \A i \in Attempts :
         att[i].cause = "timeout" =>
           /\ att[i].req \in {"destroyed", "aborted"}
           /\ att[i].res # "ended"
           /\ (cfg.backend = "node" \/ i = cfg.retry) =>
                /\ att[i].promise = "rejected"
                /\ att[i].out.kind = "error"
                /\ att[i].out.code = "ECONNABORTED"
                /\ att[i].out.message.n = cfg.timeout
                /\ att[i].out.response = NoResp
           /\ (cfg.backend = "browser" /\ i < cfg.retry) => att[i].retrying
  /\ (cfg.timeout = 0 /\ cfg.defaultsTimeout = 0) =>
       \A i \in Attempts : att[i].cause # "timeout"

\* An attempt timed out after the response headers had arrived, under a
\* request timeout that differs from the default one.
C8_TimedOutWitness ==
  \E i \in Attempts :
    /\ cfg.timeout > 0
    /\ cfg.defaultsTimeout > 0
    /\ att[i].cause = "timeout"
    /\ att[i].status # 0
    /\ att[i].promise = "rejected"

\* C9: once an attempt has settled, a later timeout or abort trigger is a
\* no-op: it changes neither the outcome nor the transport (an open
\* request, or the live response stream handed to the caller, is not
\* destroyed or aborted).
C9_LateTriggerNoOp ==
  [][\A i \in Attempts :
       att[i].promise \in Settled =>
         /\ att'[i].promise = att[i].promise
         /\ att'[i].out = att[i].out
         /\ att[i].req = "open" => att'[i].req \notin {"destroyed", "aborted"}]_vars

\* C10: when a response is received in full and decoded on an attempt not
\* yet settled, the effective status predicate alone decides: the caller's
\* validateStatus when given (not combined with the default), otherwise
\* 200 <= status < 300. Accepted, the attempt is resolved with the
\* Response; refused, it is rejected with an error of code null whose
\* status is the HTTP status and whose response is the Response.
C10_StatusDecides ==
  \A i \in Attempts :
    att[i].cause = "decoded" =>
      LET s == att[i].status
          accepted == IF cfg.validateStatus.given
                      THEN s \in cfg.validateStatus.accepts
                      ELSE s >= 200 /\ s < 300
      IN IF accepted
         THEN /\ att[i].promise = "resolved"
              /\ att[i].out = Resolved(Response(s, "parsed"))
         ELSE /\ att[i].promise = "rejected"
              /\ att[i].out.kind = "error"
              /\ att[i].out.code = NullCode
              /\ att[i].out.status = s
              /\ att[i].out.response = Response(s, "parsed")

\* The caller's predicate decided against the default window: it accepted a
\* status the default refuses, or refused one the default accepts.
C10_CustomPredicateWitness ==
  /\ cfg.validateStatus.given
  /\ \E i \in Attempts :
       /\ att[i].cause = "decoded"
       /\ \/ att[i].status = 404 /\ att[i].promise = "resolved"
          \/ att[i].status = 200 /\ att[i].promise = "rejected"

\* C11: status validation is applied to a stream response from its
\* headers. On the server backend, an attempt of responseType 'stream'
\* whose first terminal event is the arrival of response headers with a
\* status the effective predicate refuses is rejected with a null-coded
\* error carrying that status, and is not resolved.
C11_StreamStatusValidated ==
  \A i \in Attempts :
    ( /\ cfg.backend = "node"
      /\ cfg.responseType = "stream"
      /\ att[i].cause = "stream"
      /\ ~validateStatus(att[i].status) )
    => /\ att[i].promise = "rejected"
       /\ att[i].out.code = NullCode
       /\ att[i].out.status = att[i].status

\* C12: pre-flight failures (invalid URL, body-encoding failure) and
\* upload-stream failures are never retried. When the first attempt ended
\* with one of them, the call has made exactly one attempt, has waited no
\* delay, and has rejected with that failure.
C12_PreflightNotRetried ==
  att[0].cause \in {"url", "encode", "upload"}
  => /\ nAttempts = 1
     /\ nDelays = 0
     /\ pc = "done"
     /\ result = att[0].out

\* C13: the request is finalized before any I/O. An attempt that failed in
\* URL building or body encoding is rejected with ERR_INVALID_URL or
\* ERR_BODY_STRINGIFY respectively, and no transport request was created,
\* opened or written for it.
C13_FinalizedBeforeIO ==
  \A i \in Attempts :
    /\ att[i].cause \in {"url", "encode"} =>
         /\ att[i].promise = "rejected"
         /\ att[i].req = "none"
         /\ ~att[i].listener
    /\ att[i].cause = "url" => att[i].out.code = "ERR_INVALID_URL"
    /\ att[i].cause = "encode" => att[i].out.code = "ERR_BODY_STRINGIFY"

\* C14: every rejection, of an attempt and of the call, is a classified
\* error whose code is one of ERR_NETWORK, ECONNABORTED, ERR_INVALID_URL,
\* ERR_BODY_STRINGIFY, ERR_PARSE, ERR_UPLOAD_STREAM, ERR_RESPONSE or null.
C14_ClassifiedErrors ==
  LET Classified(e) ==
        /\ e.kind = "error"
        /\ e.code \in {"ERR_NETWORK", "ECONNABORTED", "ERR_INVALID_URL",
                       "ERR_BODY_STRINGIFY", "ERR_PARSE", "ERR_UPLOAD_STREAM",
                       "ERR_RESPONSE", NullCode}
  IN /\ \A i \in Attempts : att[i].promise = "rejected" => Classified(att[i].out)
     /\ (pc = "done" /\ result.kind # "response") => Classified(result)

\* C15: an error carries error.response exactly when a response was
\* received. An attempt rejected by its own parse failure, status failure
\* or response-stream failure carries the Response; one rejected by an
\* invalid URL, a body-encoding failure, a network failure, a timeout or an
\* abort carries none.
C15_ResponseAttached ==
  \A i \in Attempts :
    (att[i].promise = "rejected" /\ ~att[i].retrying) =>
      /\ att[i].cause \in {"parse", "decoded", "response"} =>
           /\ att[i].out.response # NoResp
           /\ att[i].out.response.status = att[i].status
      /\ att[i].cause \in {"url", "encode", "network", "timeout", "abort"} =>
           att[i].out.response = NoResp

\* C18: when the request sets no timeout of its own and defaults.timeout is
\* T > 0, every attempt's transport request is given the timeout T, and an
\* attempt ended by that timeout is aborted.
C18_DefaultTimeoutApplies ==
  \A i \in Attempts :
    ( /\ cfg.timeout = 0
      /\ cfg.defaultsTimeout > 0
      /\ att[i].req \notin {"none", "unsent"} )
    => /\ att[i].timeout = cfg.defaultsTimeout
       /\ att[i].cause = "timeout" => att[i].req \in {"destroyed", "aborted"}

\* The server and the transport behaved in the same way in the two calls:
\* every attempt index both calls reached was ended by the same event with
\* the same status.
SameBehaviour ==
  \A i \in Attempts :
    (Script[i][1] # "none" /\ first.script[i][1] # "none")
    => Script[i] = first.script[i]

\* C16: the two backends are observably equivalent. When the same call has
\* ended on the server backend and then on the browser backend under the
\* same server and transport behaviour, both made the same number of
\* attempts and ended in the same outcome: Responses with equal status and
\* data, or errors with the same code and the same attached response.
C16_BackendsEquivalent ==
  ( /\ cfg.backend = "browser"
    /\ pc = "done"
    /\ first # NoFirst
    /\ SameBehaviour )
  => /\ nAttempts = first.attempts
     /\ result.kind = first.out.kind
     /\ result.code = first.out.code
     /\ result.response = first.out.response

\* The headers object h names the header n, under some spelling.
Names(h, n) == \E j \in 1..Len(h) : Lower(h[j].k) = n

\* The value the headers object h gives the header n.
ValueOf(h, n) == h[CHOOSE j \in 1..Len(h) : Lower(h[j].k) = n].v

\* C17: the outgoing headers of an attempt are the default headers
\* overlaid by the per-request headers. For every header the body codec
\* does not compute (every header but the content-type of an encoded body
\* and the content-length): when the request names it, the request's value
\* is sent; when only the defaults name it, the default value is sent.
C17_HeadersMerged ==
  \A i \in Attempts :
    att[i].req = "open" =>
      \A n \in {"accept", "content-type"} :
        (n = "content-type" => cfg.body \in {"none", "string"}) =>
          IF Names(cfg.headers, n)
          THEN att[i].sent.headers[n] = <<ValueOf(cfg.headers, n)>>
          ELSE Names(cfg.defaultHeaders, n) =>
                 att[i].sent.headers[n] = <<ValueOf(cfg.defaultHeaders, n)>>

\* C19: the body codec never overwrites a content-type the caller set.
\* Whatever the body kind and whatever the spelling of the header name in
\* config.headers, the content-type sent is exactly the caller's value.
C19_ContentTypeKept ==
  \A i \in Attempts :
    (att[i].req = "open" /\ Names(cfg.headers, "content-type")) =>
      att[i].sent.headers["content-type"]
        = <<ValueOf(cfg.headers, "content-type")>>

\* C20: a JSON-serializable body that is not a form (an object or an
\* array), sent with no content-type set by the request or the defaults, is
\* sent with Content-Type exactly application/json and as its JSON
\* encoding.
C20_JsonBody ==
  \A i \in Attempts :
    ( /\ att[i].req = "open"
      /\ cfg.body \in {"object", "array"}
      /\ ~Names(cfg.headers, "content-type")
      /\ ~Names(cfg.defaultHeaders, "content-type") )
    => /\ att[i].sent.headers["content-type"] = <<"application/json">>
       /\ att[i].sent.body = "json"

\* C21: every body that is not absent is transmitted according to its
\* class: a string as its UTF-8 bytes, a binary buffer unmodified, another
\* primitive as its string conversion, each with Content-Length equal to
\* the byte length; only an absent body gives a request without a body.
C21_BodyByClass ==
  \A i \in Attempts :
    att[i].req = "open" =>
      /\ cfg.body = "string" => att[i].sent.body = "utf8"
      /\ cfg.body = "buffer" => att[i].sent.body = "bytes"
      /\ cfg.body = "primitive" => att[i].sent.body = "String(body)"
      /\ cfg.body \in {"string", "buffer", "primitive"} =>
           att[i].sent.headers["content-length"] = <<"byteLength">>
      /\ att[i].sent.body = "none" => cfg.body = "none"

\* The values the query q gives the key, in order.
QueryOf(q, key) ==
  LET Is(x) == x.k = key
      pairs == SelectSeq(q, Is)
  IN [j \in 1..Len(pairs) |-> pairs[j].v]

\* The query the url argument carries, and its fragment.
ExistingQuery == ParseUrl(cfg.href).query

Fragment == From(cfg.href, "#")

\* The values a key has in the merge by key of the existing query and the
\* params: those of the params entry when there is one (one value per item
\* of an array), otherwise those of the existing query.
MergedQuery(key) ==
  IF \E j \in 1..Len(cfg.params.entries) : cfg.params.entries[j].k = key
  THEN LET e == cfg.params.entries[
                  CHOOSE j \in 1..Len(cfg.params.entries) :
                    cfg.params.entries[j].k = key]
       IN CASE e.v = "array" -> ArrayItems
            [] e.v = "null" -> <<"">>
            [] e.v = "object" -> <<ObjectJson>>
            [] OTHER -> <<ScalarString>>
  ELSE QueryOf(ExistingQuery, key)

\* C22: a request whose URL has no http:// or https:// scheme, made while
\* no base URL is configured, fails with code ERR_INVALID_URL and issues no
\* network request.
C22_RelativeWithoutBase ==
  \A i \in Attempts :
    ( /\ att[i].promise # "none"
      /\ ~startsWithHttp(cfg.href)
      /\ cfg.baseURL = <<>> )
    => /\ att[i].promise = "rejected"
       /\ att[i].out.code = "ERR_INVALID_URL"
       /\ att[i].req = "none"

\* C23: for a relative URL and a configured base URL, the URL requested is
\* the base without trailing slash, '/', the path without leading slash,
\* the merged query, and the original fragment, which takes no part in the
\* query merging.
C23_UrlBuilt ==
  \A i \in Attempts :
    ( /\ att[i].req = "open"
      /\ ~startsWithHttp(cfg.href)
      /\ cfg.baseURL # <<>> )
    => LET base == IF cfg.baseURL[Len(cfg.baseURL)] = "/"
                   THEN SubSeq(cfg.baseURL, 1, Len(cfg.baseURL) - 1)
                   ELSE cfg.baseURL
           whole == Upto(Upto(cfg.href, "#"), "?")
           path == IF whole[1] = "/" THEN Tail(whole) ELSE whole
       IN /\ att[i].sent.url.path = base \o <<"/">> \o path
          /\ att[i].sent.url.hash = Fragment
          /\ \A key \in ParamKeys :
               QueryOf(att[i].sent.url.query, key) = MergedQuery(key)

\* C24: when the URL carries a query string and params are given, the final
\* query is the merge by key of both: an existing key the params do not
\* name keeps its value, a key present in both takes the params value.
C24_QueryMerged ==
  \A i \in Attempts :
    ( /\ att[i].req = "open"
      /\ ExistingQuery # <<>>
      /\ cfg.params.given )
    => \A key \in ParamKeys :
         QueryOf(att[i].sent.url.query, key) = MergedQuery(key)

\* C25: each item of an array value of the params gives one pair of that
\* key in the final query, in the order of the array; the array is not
\* encoded into one value.
C25_ArrayParams ==
  \A i \in Attempts :
    att[i].req = "open" =>
      \A j \in 1..Len(cfg.params.entries) :
        cfg.params.entries[j].v = "array" =>
          QueryOf(att[i].sent.url.query, cfg.params.entries[j].k) = ArrayItems

\* C26: for a response declared as JSON and not handled as binary, an empty
\* body decodes to null, and a non-empty body that is not valid JSON rejects
\* the attempt with ERR_PARSE, the raw text and the status in
\* error.response, whatever the status is.
C26_JsonDecoded ==
  \A i \in Attempts :
    ( /\ att[i].cause \in {"parse", "decoded"}
      /\ cfg.reply.type = "application/json"
      /\ cfg.responseType = "json" )
    => /\ att[i].text = "empty" =>
            /\ att[i].out.response.data = "null"
            /\ att[i].out.code # "ERR_PARSE"
       /\ att[i].text \in {"invalid", "blank"} =>
            /\ att[i].promise = "rejected"
            /\ att[i].out.code = "ERR_PARSE"
            /\ att[i].out.response = Response(att[i].status, "text")
            /\ att[i].out.status = att[i].status

\* C27: on both backends a response whose Content-Disposition has a
\* filename= parameter resolves with the decoded filename; without the
\* header, or when the value cannot be decoded, the response has no
\* filename and the outcome is the one the status gives.
C27_FilenameAttached ==
  \A i \in Attempts :
    att[i].cause = "decoded" =>
      /\ att[i].promise = (IF validateStatus(att[i].status)
                           THEN "resolved" ELSE "rejected")
      /\ att[i].out.response.filename =
           (IF cfg.reply.disposition = "filename" THEN "decoded" ELSE NoFilename)

\* C28: download progress is reported only for a response that declares a
\* content-length; within an attempt the loaded values never decrease; and
\* once the whole body is received the last one is the content-length
\* (and there is one when the callback is given and the length positive).
C28_DownloadProgress ==
  \A i \in Attempts :
    LET p == att[i].progress
    IN /\ p # <<>> => cfg.reply.declared
       /\ \A j \in 1..(Len(p) - 1) : p[j] <= p[j + 1]
       /\ (att[i].res = "ended" /\ p # <<>>) => p[Len(p)] = cfg.reply.length
       /\ ( /\ att[i].res = "ended"
            /\ cfg.onDownloadProgress
            /\ cfg.reply.declared
            /\ cfg.reply.length > 0 ) => p # <<>>

\* A body of a declared length has arrived in several chunks, each reported.
C28_ChunkedWitness ==
  \E i \in Attempts :
    /\ cfg.backend = "node"
    /\ att[i].res = "ended"
    /\ Len(att[i].progress) >= 2
    /\ att[i].progress[1] < att[i].progress[2]
    /\ att[i].progress[Len(att[i].progress)] = cfg.reply.length

\* C29: with onUploadProgress given and a string or buffer body, by the time
\* the response arrives upload progress has been reported, every report
\* with total the body's byte length and percent loaded/total*100, loaded
\* never decreasing and ending at the total.
C29_UploadProgress ==
  \A i \in Attempts :
    ( /\ cfg.onUploadProgress
      /\ cfg.body \in {"string", "buffer"}
      /\ att[i].res \in {"headers", "ended"} )
    => LET u == att[i].upload
       IN /\ u # <<>>
          /\ \A j \in 1..Len(u) : u[j] = Report(u[j].loaded, ByteLength)
          /\ \A j \in 1..(Len(u) - 1) : u[j].loaded <= u[j + 1].loaded
          /\ u[Len(u)].loaded = ByteLength

\* C30: every attempt after the first is built from the defaults as they
\* are when it is made: its URL from their base URL, its headers from
\* their headers, its timeout from their timeout when the request gives
\* none; so a change made during the retry delay is in the next attempt.
C30_DefaultsReRead ==
  [][\A i \in Attempts \ {0} :
       (att[i].promise = "none" /\ att'[i].req = "open") =>
         /\ att'[i].sent.url.path = cfg.baseURL \o <<"/">> \o cfg.href
         /\ \A j \in 1..Len(cfg.defaultHeaders) :
              att'[i].sent.headers[Lower(cfg.defaultHeaders[j].k)] =
                <<cfg.defaultHeaders[j].v>>
         /\ att'[i].timeout =
              (IF cfg.timeout # 0 THEN cfg.timeout ELSE cfg.defaultsTimeout)]_vars

\* C33: a call given the option retries = N (and no retry) whose every
\* attempt fails with a network error has made N + 1 attempts when it
\* ends, on either backend; with neither option it has made one.
C33_RetriesOption ==
  ( /\ pc = "done"
    /\ cfg.retry = Absent
    /\ \A i \in Attempts : att[i].promise # "none" => att[i].cause = "network" )
  => nAttempts = (IF cfg.retries = Absent THEN 0 ELSE cfg.retries) + 1

\* C34: across the retries of one call, each inter-attempt delay is longer
\* than the one before it.
C34_ExponentialBackoff ==
  \A j \in 1..(Len(waits) - 1) : waits[j] < waits[j + 1]

\* The retryDelay in effect: the option, or the backend's own default.
RetryDelayInEffect ==
  IF cfg.retryDelay # Absent THEN cfg.retryDelay
  ELSE IF cfg.backend = "node" THEN 300 ELSE 500

C37_NothingAfterAbort ==
  [][signalAborted =>
       /\ nAttempts' = nAttempts
       /\ result.kind # "response" => result'.kind # "response"]_vars

\* C38: an attempt that has settled, by whatever path, has no abort
\* listener registered on the caller's signal, and a call never has more
\* than one listener registered.
C38_ListenerRemoved ==
  /\ \A i \in Attempts : att[i].promise \in Settled => ~att[i].listener
  /\ Cardinality({i \in Attempts : att[i].listener}) <= 1

\* C39: with an effective timeout > 0 (the request's, or else the default
\* one) every call eventually settles, whatever the server and the
\* transport do.
C39_EventuallySettles ==
  (cfg.timeout > 0 \/ cfg.defaultsTimeout > 0) => <>(pc = "done")

\* C40: the adapter is loaded at most once: every caller that got an
\* adapter got the one of the single load, and once that load has failed
\* no load is started again and no caller gets an adapter.
C40_LoadedOnce ==
  /\ loader.loads <= 1
  /\ loader.loads = 0 <=> loader.adapterPromise = "null"
  /\ \A c \in Callers :
       /\ loader.calls[c] \in {"browserAdapter", "coreRequest"} =>
            /\ loader.adapterPromise = "fulfilled"
            /\ loader.calls[c] = Adapter
       /\ loader.calls[c] = "rejected" => loader.adapterPromise = "rejected"
       /\ loader.calls[c] = "awaiting" => loader.adapterPromise # "null"

\* After a failed load a caller has called again and has been rejected,
\* while another caller is awaiting the same single load.
C40_FailedLoadWitness ==
  /\ loader.adapterPromise = "rejected"
  /\ loader.loads = 1
  /\ \E c, e \in Callers :
       /\ loader.calls[c] = "rejected"
       /\ loader.calls[e] = "awaiting"

\* C31: no step of a request changes the Defaults object or the caller's
\* RequestConfig: base URL, default headers and default timeout, the
\* config's fields, its headers and its body object are after every step
\* what they were before it.
C31_NothingMutated == [][cfg' = cfg]_vars

============================================================================
